---- MODULE Spec2Model ----
(***************************************************************************)
(* Library lending service (src/index.js): the Basic-auth middleware, the  *)
(* five Express routes and the two SQLite tables they read and write.      *)
(*                                                                         *)
(* Text values (emails, passwords, headers, dates) are sequences of        *)
(* one-character strings, so that split, base64 and the byte-wise TEXT     *)
(* comparison of SQLite are computed as the code computes them.            *)
(***************************************************************************)
EXTENDS Integers, Sequences, FiniteSets, TLC

(***************************************************************************)
(* Bounds of the model.                                                    *)
(***************************************************************************)
\* rows the borrow_requests table may hold before new submissions stop arriving
MaxRows == 2
\* rows the users table may hold before new POST /users stop arriving
MaxUsers == 3

(***************************************************************************)
(* Text helpers.                                                           *)
(***************************************************************************)
\* JS undefined where a text value is expected (no text contains this token)
Undefined == <<"undefined">>

\* String.prototype.split(sep) for a one-character separator: always at
\* least one part, the parts between consecutive separators
RECURSIVE SplitFrom(_, _, _, _)
SplitFrom(s, sep, i, cur) ==
    IF i > Len(s) THEN <<cur>>
    ELSE IF s[i] = sep THEN <<cur>> \o SplitFrom(s, sep, i + 1, <<>>)
    ELSE SplitFrom(s, sep, i + 1, Append(cur, s[i]))

Split(s, sep) == SplitFrom(s, sep, 1, <<>>)

\* arr[i] of a JS array, 0-based: undefined past the end
At(arr, i) == IF i + 1 <= Len(arr) THEN arr[i + 1] ELSE Undefined

\* the ASCII codes of the characters the model's texts are written in
AsciiTable ==
    ("a" :> 97) @@ ("b" :> 98) @@ ("p" :> 112) @@ ("q" :> 113) @@
    ("z" :> 122) @@ (":" :> 58) @@ (" " :> 32) @@
    ("0" :> 48) @@ ("1" :> 49) @@ ("2" :> 50) @@ ("3" :> 51) @@ ("4" :> 52)

\* Buffer#toString(): a byte to its character (U+FFFD for a byte that is
\* not the code of a character of the table)
CharOf(byte) ==
    IF \E c \in DOMAIN AsciiTable : AsciiTable[c] = byte
    THEN CHOOSE c \in DOMAIN AsciiTable : AsciiTable[c] = byte
    ELSE "\\uFFFD"

\* the base64 alphabet, index 0..63 at positions 1..64
B64Alphabet ==
    << "A","B","C","D","E","F","G","H","I","J","K","L","M","N","O","P",
       "Q","R","S","T","U","V","W","X","Y","Z","a","b","c","d","e","f",
       "g","h","i","j","k","l","m","n","o","p","q","r","s","t","u","v",
       "w","x","y","z","0","1","2","3","4","5","6","7","8","9","+","/" >>

B64Index(c) == (CHOOSE i \in 1..64 : B64Alphabet[i] = c) - 1

IsB64Char(c) == \E i \in 1..64 : B64Alphabet[i] = c

\* the client's side of the header: RFC 4648 base64 of a byte sequence
RECURSIVE Base64EncodeBytes(_)
Base64EncodeBytes(bs) ==
    IF Len(bs) = 0 THEN <<>>
    ELSE IF Len(bs) = 1 THEN
        << B64Alphabet[(bs[1] \div 4) + 1],
           B64Alphabet[((bs[1] % 4) * 16) + 1], "=", "=" >>
    ELSE IF Len(bs) = 2 THEN
        << B64Alphabet[(bs[1] \div 4) + 1],
           B64Alphabet[((bs[1] % 4) * 16 + bs[2] \div 16) + 1],
           B64Alphabet[((bs[2] % 16) * 4) + 1], "=" >>
    ELSE
        << B64Alphabet[(bs[1] \div 4) + 1],
           B64Alphabet[((bs[1] % 4) * 16 + bs[2] \div 16) + 1],
           B64Alphabet[((bs[2] % 16) * 4 + bs[3] \div 64) + 1],
           B64Alphabet[(bs[3] % 64) + 1] >>
        \o Base64EncodeBytes(SubSeq(bs, 4, Len(bs)))

Base64Encode(text) == Base64EncodeBytes([i \in 1..Len(text) |-> AsciiTable[text[i]]])

\* Buffer.from(s, 'base64'): the sextets of s up to the first '=' (what is
\* no base64 character is skipped), every 4 giving 3 bytes, a tail of 3
\* giving 2 bytes, a tail of 2 giving 1 byte, a tail of 1 nothing
RECURSIVE Sextets(_, _)
Sextets(s, i) ==
    IF i > Len(s) \/ s[i] = "=" THEN <<>>
    ELSE IF IsB64Char(s[i]) THEN <<B64Index(s[i])>> \o Sextets(s, i + 1)
    ELSE Sextets(s, i + 1)

RECURSIVE BytesOfSextets(_)
BytesOfSextets(x) ==
    IF Len(x) < 2 THEN <<>>
    ELSE IF Len(x) = 2 THEN << x[1] * 4 + x[2] \div 16 >>
    ELSE IF Len(x) = 3 THEN
        << x[1] * 4 + x[2] \div 16, (x[2] % 16) * 16 + x[3] \div 4 >>
    ELSE
        << x[1] * 4 + x[2] \div 16, (x[2] % 16) * 16 + x[3] \div 4,
           (x[3] % 4) * 64 + x[4] >>
        \o BytesOfSextets(SubSeq(x, 5, Len(x)))

Base64Decode(s) ==
    LET bytes == BytesOfSextets(Sextets(s, 1))
    IN  [i \in 1..Len(bytes) |-> CharOf(bytes[i])]

\* SQLite's comparison of two TEXT values (memcmp, the shorter first on a tie)
RECURSIVE TextLeqFrom(_, _, _)
TextLeqFrom(x, y, i) ==
    IF i > Len(x) THEN TRUE
    ELSE IF i > Len(y) THEN FALSE
    ELSE IF x[i] = y[i] THEN TextLeqFrom(x, y, i + 1)
    ELSE AsciiTable[x[i]] < AsciiTable[y[i]]

TextLeq(x, y) == TextLeqFrom(x, y, 1)

(***************************************************************************)
(* The store: the users and borrow_requests tables (rows in rowid order),  *)
(* the static books table, and the requests being handled.                 *)
(***************************************************************************)
VARIABLES users, books, borrow_requests, inflight

vars == <<users, books, borrow_requests, inflight>>

\* CHECK(status IN ('Pending', 'Approved', 'Denied'))
Statuses == {"Pending", "Approved", "Denied"}

\* bcrypt.hashSync(password, 10): a hash that only its own password matches
HashSync(password) == [alg |-> "bcrypt", rounds |-> 10, of |-> password]

\* bcrypt.compareSync(data, hash) for a data that is a string
CompareSync(data, hash) == hash.of = data

\* bcrypt.compareSync throws 'data and hash arguments required' on undefined
CompareSyncThrows(data) == data = Undefined

\* req.user before the middleware sets it; also db.get's undefined (no row)
NoUser == [id |-> 0, email |-> Undefined, password |-> HashSync(Undefined), is_admin |-> 0]

\* db.get('SELECT * FROM users WHERE email = ?'): the row, or undefined
DbGetUser(table, email) ==
    IF \E i \in 1..Len(table) : table[i].email = email
    THEN table[CHOOSE i \in 1..Len(table) : table[i].email = email]
    ELSE NoUser


\* the role check taking any authenticated user for an administrator
IsAdminAnyUser(user) == user.id # 0

\* JS truthiness of the stored is_admin (0 or 1), as in !req.user.is_admin
IsAdmin(user) == user.is_admin # 0

\* a response: status code, text body, JSON body
Resp(status, msg) == [status |-> status, msg |-> msg, data |-> <<>>]

RespJson(rows) == [status |-> 200, msg |-> "", data |-> rows]

\* no response has been sent
NoResponse == Resp(0, "")

\* what a rejected promise of an async middleware or handler ends in: Express 4
\* leaves the request unanswered, Express 5 answers 500 from its error handler
ThrowOutcomes == {NoResponse, Resp(500, "Internal Server Error")}

Idle == [pc |-> "idle", endpoint |-> "", header |-> <<>>, params |-> <<>>,
         body |-> <<>>, user |-> NoUser, resp |-> NoResponse]

\* a request is over: answered, or its promise rejected
Terminal(r) == r.pc \in {"idle", "done", "failed"}

Answer(r, resp) == [r EXCEPT !.pc = "done", !.resp = resp]

(***************************************************************************)
(* authenticateUser (the middleware of every route).                       *)
(***************************************************************************)
\* authHeader.split(' ')[1]
Base64Credentials(authHeader) == At(Split(authHeader, " "), 1)

\* Buffer.from(base64Credentials, 'base64').toString().split(':'), of which
\* the destructuring takes the first two parts
Credentials(base64Credentials) ==
    LET parts == Split(Base64Decode(base64Credentials), ":")
    IN  [email |-> At(parts, 0), password |-> At(parts, 1)]

\* the outcome of the middleware for a header and a users table:
\* "next" (with the user), a 401, or "throw" (the promise rejects)
AuthOutcome(authHeader, table) ==
    IF authHeader = <<>> THEN
        [kind |-> "send", resp |-> Resp(401, "Authorization header missing"), user |-> NoUser]
    ELSE IF Base64Credentials(authHeader) = Undefined THEN
        \* Buffer.from(undefined, 'base64') is a TypeError
        [kind |-> "throw", resp |-> NoResponse, user |-> NoUser]
    ELSE
        LET c    == Credentials(Base64Credentials(authHeader))
            user == DbGetUser(table, c.email)
        IN  IF user = NoUser THEN
                [kind |-> "send", resp |-> Resp(401, "Invalid credentials"), user |-> NoUser]
            ELSE IF CompareSyncThrows(c.password) THEN
                [kind |-> "throw", resp |-> NoResponse, user |-> NoUser]
            ELSE IF CompareSync(c.password, user.password) THEN
                [kind |-> "next", resp |-> NoResponse, user |-> user]
            ELSE
                [kind |-> "send", resp |-> Resp(401, "Invalid credentials"), user |-> NoUser]

Authenticate(s) ==
    /\ inflight[s].pc = "auth"
    /\ LET o == AuthOutcome(inflight[s].header, users)
       IN  IF o.kind = "send" THEN
              inflight' = [inflight EXCEPT ![s] = Answer(@, o.resp)]
           ELSE IF o.kind = "next" THEN
              inflight' = [inflight EXCEPT ![s].pc = "route", ![s].user = o.user]
           ELSE
              \E r \in ThrowOutcomes :
                 inflight' = [inflight EXCEPT ![s].pc = "failed", ![s].resp = r]
    /\ UNCHANGED <<users, books, borrow_requests>>

(***************************************************************************)
(* POST /users.                                                            *)
(***************************************************************************)
\* const {is_admin = false} = req.body, bound by sqlite3 as the integer 1 or 0
IsAdminParam(body) == IF body.is_admin = "true" THEN 1 ELSE 0

\* the users table without the UNIQUE constraint on email
InsertUserFailsNoUnique(table, body) == body.email = Undefined

\* INSERT INTO users: email TEXT UNIQUE NOT NULL, id AUTOINCREMENT
InsertUserFails(table, body) ==
    \/ body.email = Undefined
    \/ \E i \in 1..Len(table) : table[i].email = body.email

NewUserRow(table, body) ==
    [id |-> Len(table) + 1, email |-> body.email,
     password |-> HashSync(body.password), is_admin |-> IsAdminParam(body)]

CreateUser(s) ==
    /\ inflight[s].pc = "route"
    /\ inflight[s].endpoint = "POST /users"
    /\ IF ~IsAdmin(inflight[s].user) THEN
          /\ inflight' = [inflight EXCEPT ![s] = Answer(@, Resp(403, "Access denied"))]
          /\ UNCHANGED users
       ELSE IF InsertUserFails(users, inflight[s].body) THEN
          /\ inflight' = [inflight EXCEPT ![s] = Answer(@, Resp(400, "Error creating user"))]
          /\ UNCHANGED users
       ELSE
          /\ users' = Append(users, NewUserRow(users, inflight[s].body))
          /\ inflight' = [inflight EXCEPT ![s] = Answer(@, Resp(200, "User created successfully"))]
    /\ UNCHANGED <<books, borrow_requests>>

(***************************************************************************)
(* GET /borrow-requests.                                                   *)
(***************************************************************************)
ListRequests(s) ==
    /\ inflight[s].pc = "route"
    /\ inflight[s].endpoint = "GET /borrow-requests"
    /\ IF ~IsAdmin(inflight[s].user)
       THEN inflight' = [inflight EXCEPT ![s] = Answer(@, Resp(403, "Access denied"))]
       ELSE inflight' = [inflight EXCEPT ![s] = Answer(@, RespJson(borrow_requests))]
    /\ UNCHANGED <<users, books, borrow_requests>>

(***************************************************************************)
(* PUT /borrow-requests/:id.                                               *)
(***************************************************************************)
\* the rows the UPDATE's WHERE id = ? selects
UpdateMatches(rows, id) == {i \in 1..Len(rows) : rows[i].id = id}


\* the table without its CHECK constraint: the UPDATE never fails
UpdateFailsNoCheck(rows, id, status) == FALSE

\* an UPDATE that fails when no row has the id
UpdateFailsIfMissing(rows, id, status) ==
    \/ UpdateMatches(rows, id) = {}
    \/ status \notin Statuses

\* an UPDATE that only lets a Pending request change its status
UpdateFailsUnlessPending(rows, id, status) ==
    \/ UpdateMatches(rows, id) # {} /\ status \notin Statuses
    \/ \E i \in UpdateMatches(rows, id) : rows[i].status # "Pending"

\* the UPDATE fails when it would write a status the CHECK constraint refuses
UpdateFails(rows, id, status) ==
    UpdateMatches(rows, id) # {} /\ status \notin Statuses


\* the UPDATE selecting by book instead of by id: every request for the
\* book of the request named
UpdateStatusOfBook(rows, id, status) ==
    [i \in 1..Len(rows) |->
        IF \E j \in UpdateMatches(rows, id) : rows[j].book_id = rows[i].book_id
        THEN [rows[i] EXCEPT !.status = status]
        ELSE rows[i]]

\* UPDATE borrow_requests SET status = ? WHERE id = ?
UpdateStatus(rows, id, status) ==
    [i \in 1..Len(rows) |->
        IF i \in UpdateMatches(rows, id) THEN [rows[i] EXCEPT !.status = status]
        ELSE rows[i]]

UpdateRequestStatus(s) ==
    /\ inflight[s].pc = "route"
    /\ inflight[s].endpoint = "PUT /borrow-requests/:id"
    /\ IF ~IsAdmin(inflight[s].user) THEN
          /\ inflight' = [inflight EXCEPT ![s] = Answer(@, Resp(403, "Access denied"))]
          /\ UNCHANGED borrow_requests
       ELSE IF UpdateFails(borrow_requests, inflight[s].params.id, inflight[s].body.status) THEN
          /\ inflight' = [inflight EXCEPT ![s] = Answer(@, Resp(400, "Error updating request"))]
          /\ UNCHANGED borrow_requests
       ELSE
          /\ borrow_requests' =
                UpdateStatus(borrow_requests, inflight[s].params.id, inflight[s].body.status)
          /\ inflight' = [inflight EXCEPT ![s] = Answer(@, Resp(200, "Request updated"))]
    /\ UNCHANGED <<users, books>>

(***************************************************************************)
(* GET /books.                                                             *)
(***************************************************************************)
GetBooks(s) ==
    /\ inflight[s].pc = "route"
    /\ inflight[s].endpoint = "GET /books"
    /\ inflight' = [inflight EXCEPT ![s] = Answer(@, RespJson(books))]
    /\ UNCHANGED <<users, books, borrow_requests>>

(***************************************************************************)
(* POST /borrow-requests: the conflict query, then the insert.             *)
(***************************************************************************)
\* ? BETWEEN start_date AND end_date, on TEXT values
Between(x, lo, hi) == TextLeq(lo, x) /\ TextLeq(x, hi)


\* the conflict query as a full interval intersection test
ConflictRowIntersects(row, book_id, start_date, end_date) ==
    /\ row.book_id = book_id
    /\ row.status = "Approved"
    /\ TextLeq(start_date, row.end_date)
    /\ TextLeq(row.start_date, end_date)

\* the conflict query without its book_id condition
ConflictRowAnyBook(row, book_id, start_date, end_date) ==
    /\ row.status = "Approved"
    /\ \/ Between(start_date, row.start_date, row.end_date)
       \/ Between(end_date, row.start_date, row.end_date)

\* the conflict query with its second BETWEEN left out
ConflictRowStartOnly(row, book_id, start_date, end_date) ==
    /\ row.book_id = book_id
    /\ row.status = "Approved"
    /\ Between(start_date, row.start_date, row.end_date)

\* the WHERE clause of the conflict query, for one row
ConflictRow(row, book_id, start_date, end_date) ==
    /\ row.book_id = book_id
    /\ row.status = "Approved"
    /\ \/ Between(start_date, row.start_date, row.end_date)
       \/ Between(end_date, row.start_date, row.end_date)

\* db.get of the conflict query returned a row
Conflict(rows, body) ==
    \E i \in 1..Len(rows) :
        ConflictRow(rows[i], body.book_id, body.start_date, body.end_date)

CheckConflict(s) ==
    /\ inflight[s].pc = "route"
    /\ inflight[s].endpoint = "POST /borrow-requests"
    /\ IF Conflict(borrow_requests, inflight[s].body)
       THEN inflight' = [inflight EXCEPT ![s] =
                Answer(@, Resp(400, "Book already borrowed during the selected period"))]
       ELSE inflight' = [inflight EXCEPT ![s].pc = "insert"]
    /\ UNCHANGED <<users, books, borrow_requests>>


\* the INSERT writing the request as already Approved
NewRequestRowApproved(rows, body, user) ==
    [id |-> Len(rows) + 1, book_id |-> body.book_id, user_id |-> user.id,
     start_date |-> body.start_date, end_date |-> body.end_date,
     status |-> "Approved"]

\* the INSERT with its two date parameters in the wrong order
NewRequestRowSwapped(rows, body, user) ==
    [id |-> Len(rows) + 1, book_id |-> body.book_id, user_id |-> user.id,
     start_date |-> body.end_date, end_date |-> body.start_date,
     status |-> "Pending"]

\* INSERT INTO borrow_requests (...) VALUES (?, ?, ?, ?, "Pending")
NewRequestRow(rows, body, user) ==
    [id |-> Len(rows) + 1, book_id |-> body.book_id, user_id |-> user.id,
     start_date |-> body.start_date, end_date |-> body.end_date,
     status |-> "Pending"]


\* an INSERT under an exclusion constraint: it fails when a request for
\* the same book already covers the start or the end date
InsertRequestFailsExclusive(rows, body) ==
    \/ body.start_date = Undefined \/ body.end_date = Undefined
    \/ \E i \in 1..Len(rows) :
          /\ rows[i].book_id = body.book_id
          /\ \/ Between(body.start_date, rows[i].start_date, rows[i].end_date)
             \/ Between(body.end_date, rows[i].start_date, rows[i].end_date)

\* the INSERT fails on a NOT NULL column left undefined
InsertRequestFails(rows, body) ==
    body.start_date = Undefined \/ body.end_date = Undefined

InsertRequest(s) ==
    /\ inflight[s].pc = "insert"
    /\ IF InsertRequestFails(borrow_requests, inflight[s].body) THEN
          /\ inflight' = [inflight EXCEPT ![s] = Answer(@, Resp(400, "Error submitting request"))]
          /\ UNCHANGED borrow_requests
       ELSE
          /\ borrow_requests' =
                Append(borrow_requests,
                       NewRequestRow(borrow_requests, inflight[s].body, inflight[s].user))
          /\ inflight' = [inflight EXCEPT ![s] = Answer(@, Resp(200, "Request submitted"))]
    /\ UNCHANGED <<users, books>>

(***************************************************************************)
(* Clients: the requests that arrive.                                      *)
(***************************************************************************)
\* what a client sends for an identity and a secret: "Basic " and the base64
\* of identity:secret
BasicHeader(email, password) ==
    <<"B", "a", "s", "i", "c", " ">> \o Base64Encode(email \o <<":">> \o password)

\* identities and secrets
EmailA == <<"a">>
EmailB == <<"b">>
EmailZ == <<"z">>
SecretP == <<"p">>
SecretQ == <<"q">>
SecretPQ == <<"p", ":", "q">>
SecretQP == <<"q", ":", "p">>

\* calendar days, as the two-digit texts the dates end in
Day1 == <<"0", "1">>
Day2 == <<"0", "2">>
Day3 == <<"0", "3">>

BookIds == {1, 2}

Request(endpoint, header, params, body) ==
    [endpoint |-> endpoint, header |-> header, params |-> params, body |-> body]

SubmitRequests(headers, bookIds, dates) ==
    {Request("POST /borrow-requests", h, <<>>,
             [book_id |-> b, start_date |-> sd, end_date |-> ed]) :
        h \in headers, b \in bookIds, sd \in dates, ed \in dates}

UpdateRequests(headers, ids, statuses) ==
    {Request("PUT /borrow-requests/:id", h, [id |-> i], [status |-> st]) :
        h \in headers, i \in ids, st \in statuses}

ListRequestsRequests(headers) ==
    {Request("GET /borrow-requests", h, <<>>, <<>>) : h \in headers}

GetBooksRequests(headers) ==
    {Request("GET /books", h, <<>>, <<>>) : h \in headers}

CreateUserRequests(headers, emails, passwords, roles) ==
    {Request("POST /users", h, <<>>, [email |-> e, password |-> p, is_admin |-> a]) :
        h \in headers, e \in emails, p \in passwords, a \in roles}

\* requests in flight that may still add a row to a table
Pending(endpoint) ==
    Cardinality({s \in DOMAIN inflight :
        inflight[s].endpoint = endpoint /\ ~Terminal(inflight[s])})

\* a request arrives on a free connection and enters the middleware
Arrive(s, req) ==
    /\ Terminal(inflight[s])
    /\ req.endpoint = "POST /borrow-requests" =>
          Len(borrow_requests) + Pending("POST /borrow-requests") < MaxRows
    /\ req.endpoint = "POST /users" =>
          Len(users) + Pending("POST /users") < MaxUsers
    /\ inflight' = [inflight EXCEPT ![s] =
          [pc |-> "auth", endpoint |-> req.endpoint, header |-> req.header,
           params |-> req.params, body |-> req.body, user |-> NoUser,
           resp |-> NoResponse]]
    /\ UNCHANGED <<users, books, borrow_requests>>

(***************************************************************************)
(* The store the server starts on, and the specifications.                 *)
(***************************************************************************)
Admin == [id |-> 1, email |-> EmailA, password |-> HashSync(SecretP), is_admin |-> 1]

Ordinary == [id |-> 2, email |-> EmailB, password |-> HashSync(SecretQ), is_admin |-> 0]

Catalogue ==
    << [id |-> 1, title |-> "Dune", author |-> "Herbert"],
       [id |-> 2, title |-> "Emma", author |-> "Austen"] >>

\* one request at a time: a librarian and a reader, no request yet
Init ==
    /\ users = <<Admin, Ordinary>>
    /\ books = Catalogue
    /\ borrow_requests = <<>>
    /\ inflight = [s \in {1} |-> Idle]

\* the reader asks for book 1 on day 1, on day 2 or on both, or for book 2
\* on day 2 or on both days; the librarian asks for book 1 on day 1, reads
\* the requests and sets any status on any id, one past the last row included,
\* or a status that is none of the three on request 1
FlowRequests ==
    { Request("POST /borrow-requests", BasicHeader(EmailB, SecretQ), <<>>,
              [book_id |-> 1, start_date |-> r[1], end_date |-> r[2]]) :
        r \in {<<Day1, Day1>>, <<Day1, Day2>>, <<Day2, Day2>>} }
    \cup { Request("POST /borrow-requests", BasicHeader(EmailB, SecretQ), <<>>,
                   [book_id |-> 2, start_date |-> sd, end_date |-> Day2]) :
             sd \in {Day1, Day2} }
    \cup SubmitRequests({BasicHeader(EmailA, SecretP)}, {1}, {Day1})
    \cup UpdateRequests({BasicHeader(EmailA, SecretP)}, 1..(MaxRows + 1), Statuses)
    \cup UpdateRequests({BasicHeader(EmailA, SecretP)}, {1}, {"Returned"})
    \cup ListRequestsRequests({BasicHeader(EmailA, SecretP)})

Next ==
    \/ \E s \in DOMAIN inflight, req \in FlowRequests : Arrive(s, req)
    \/ \E s \in DOMAIN inflight : Authenticate(s)
    \/ \E s \in DOMAIN inflight : ListRequests(s)
    \/ \E s \in DOMAIN inflight : UpdateRequestStatus(s)
    \/ \E s \in DOMAIN inflight : CheckConflict(s)
    \/ \E s \in DOMAIN inflight : InsertRequest(s)

Spec == Init /\ [][Next]_vars

(***************************************************************************)
(* Every kind of Authorization header, on every route.                     *)
(***************************************************************************)
\* a header without the space and the credentials after it
HeaderNoSpace == <<"B", "a", "s", "i", "c">>

\* a header whose credentials are the base64 of an identity alone, no ':'
HeaderNoColon(email) == <<"B", "a", "s", "i", "c", " ">> \o Base64Encode(email)

AuthHeaders ==
    { <<>>, HeaderNoSpace, HeaderNoColon(EmailA), HeaderNoColon(EmailZ),
      BasicHeader(EmailA, SecretP), BasicHeader(EmailA, SecretQ),
      BasicHeader(EmailA, SecretPQ),
      BasicHeader(EmailB, SecretQ), BasicHeader(EmailB, SecretP),
      BasicHeader(EmailB, SecretQP),
      BasicHeader(EmailZ, SecretPQ), BasicHeader(EmailZ, SecretP),
      BasicHeader(EmailZ, SecretQ) }

AuthRequests ==
    CreateUserRequests(AuthHeaders, {EmailZ}, {SecretPQ, SecretQ},
                       {"true", "false", "undefined"})
    \cup ListRequestsRequests(AuthHeaders)
    \cup UpdateRequests(AuthHeaders, {1}, {"Approved", "Denied"})
    \cup GetBooksRequests(AuthHeaders)
    \cup SubmitRequests(AuthHeaders, {1}, {Day1})

NextAuth ==
    \/ \E s \in DOMAIN inflight, req \in AuthRequests : Arrive(s, req)
    \/ \E s \in DOMAIN inflight : Authenticate(s)
    \/ \E s \in DOMAIN inflight : CreateUser(s)
    \/ \E s \in DOMAIN inflight : ListRequests(s)
    \/ \E s \in DOMAIN inflight : UpdateRequestStatus(s)
    \/ \E s \in DOMAIN inflight : GetBooks(s)
    \/ \E s \in DOMAIN inflight : CheckConflict(s)
    \/ \E s \in DOMAIN inflight : InsertRequest(s)

SpecAuth == Init /\ [][NextAuth]_vars

(***************************************************************************)
(* Requests handled concurrently.                                          *)
(***************************************************************************)
\* requests the server is handling at the same time
MaxInflight == 2

InitRace ==
    /\ users = <<Admin, Ordinary>>
    /\ books = Catalogue
    /\ borrow_requests = <<>>
    /\ inflight = [s \in 1..MaxInflight |-> Idle]

\* the reader asks for book 1 from day 1 or 2 to day 2, the librarian approves
RaceRequests ==
    { Request("POST /borrow-requests", BasicHeader(EmailB, SecretQ), <<>>,
              [book_id |-> 1, start_date |-> sd, end_date |-> Day2]) :
        sd \in {Day1, Day2} }
    \cup UpdateRequests({BasicHeader(EmailA, SecretP)}, 1..MaxRows, {"Approved"})

NextRace ==
    \/ \E s \in DOMAIN inflight, req \in RaceRequests : Arrive(s, req)
    \/ \E s \in DOMAIN inflight : Authenticate(s)
    \/ \E s \in DOMAIN inflight : UpdateRequestStatus(s)
    \/ \E s \in DOMAIN inflight : CheckConflict(s)
    \/ \E s \in DOMAIN inflight : InsertRequest(s)

SpecRace == InitRace /\ [][NextRace]_vars

(***************************************************************************)
(* Ranges that enclose, meet or miss one another.                          *)
(***************************************************************************)
\* the reader asks for book 1 on day 1, on day 2, from day 1 to 2, from day 2
\* to 3 or from day 1 to 3, or for book 2 on day 2; the librarian sets any
\* status on any request
OverlapRequests ==
    { Request("POST /borrow-requests", BasicHeader(EmailB, SecretQ), <<>>,
              [book_id |-> 1, start_date |-> r[1], end_date |-> r[2]]) :
        r \in {<<Day1, Day1>>, <<Day2, Day2>>, <<Day1, Day2>>, <<Day2, Day3>>,
               <<Day1, Day3>>} }
    \cup SubmitRequests({BasicHeader(EmailB, SecretQ)}, {2}, {Day2})
    \cup UpdateRequests({BasicHeader(EmailA, SecretP)}, 1..MaxRows, Statuses)

NextOverlap ==
    \/ \E s \in DOMAIN inflight, req \in OverlapRequests : Arrive(s, req)
    \/ \E s \in DOMAIN inflight : Authenticate(s)
    \/ \E s \in DOMAIN inflight : UpdateRequestStatus(s)
    \/ \E s \in DOMAIN inflight : CheckConflict(s)
    \/ \E s \in DOMAIN inflight : InsertRequest(s)

SpecOverlap == Init /\ [][NextOverlap]_vars

(***************************************************************************)
(* The store failing (SQLITE_BUSY, an I/O error) at one of its accesses.   *)
(***************************************************************************)
\* the promise of the middleware or handler of slot s rejects
Reject(s) ==
    \E r \in ThrowOutcomes :
        inflight' = [inflight EXCEPT ![s].pc = "failed", ![s].resp = r]

\* await db.get of the middleware rejects: it is reached once the header
\* has been split and decoded, and nothing catches it
AuthLookupFails(s) ==
    /\ inflight[s].pc = "auth"
    /\ inflight[s].header # <<>>
    /\ Base64Credentials(inflight[s].header) # Undefined
    /\ Reject(s)
    /\ UNCHANGED <<users, books, borrow_requests>>

\* the INSERT of POST /users rejects inside the try
CreateUserStoreFails(s) ==
    /\ inflight[s].pc = "route"
    /\ inflight[s].endpoint = "POST /users"
    /\ IsAdmin(inflight[s].user)
    /\ inflight' = [inflight EXCEPT ![s] = Answer(@, Resp(400, "Error creating user"))]
    /\ UNCHANGED <<users, books, borrow_requests>>

\* await db.all of GET /borrow-requests rejects, outside any try
ListRequestsFails(s) ==
    /\ inflight[s].pc = "route"
    /\ inflight[s].endpoint = "GET /borrow-requests"
    /\ IsAdmin(inflight[s].user)
    /\ Reject(s)
    /\ UNCHANGED <<users, books, borrow_requests>>

\* the UPDATE of PUT /borrow-requests/:id rejects inside the try
UpdateStoreFails(s) ==
    /\ inflight[s].pc = "route"
    /\ inflight[s].endpoint = "PUT /borrow-requests/:id"
    /\ IsAdmin(inflight[s].user)
    /\ inflight' = [inflight EXCEPT ![s] = Answer(@, Resp(400, "Error updating request"))]
    /\ UNCHANGED <<users, books, borrow_requests>>

\* await db.all of GET /books rejects, outside any try
GetBooksFails(s) ==
    /\ inflight[s].pc = "route"
    /\ inflight[s].endpoint = "GET /books"
    /\ Reject(s)
    /\ UNCHANGED <<users, books, borrow_requests>>

\* await db.get of the conflict query rejects, before the try
CheckConflictFails(s) ==
    /\ inflight[s].pc = "route"
    /\ inflight[s].endpoint = "POST /borrow-requests"
    /\ Reject(s)
    /\ UNCHANGED <<users, books, borrow_requests>>

\* the INSERT of POST /borrow-requests rejects inside the try
InsertRequestStoreFails(s) ==
    /\ inflight[s].pc = "insert"
    /\ inflight' = [inflight EXCEPT ![s] = Answer(@, Resp(400, "Error submitting request"))]
    /\ UNCHANGED <<users, books, borrow_requests>>

\* the librarian uses every route, the reader submits
FailRequests ==
    CreateUserRequests({BasicHeader(EmailA, SecretP)}, {EmailZ}, {SecretQ}, {"false"})
    \cup ListRequestsRequests({BasicHeader(EmailA, SecretP)})
    \cup UpdateRequests({BasicHeader(EmailA, SecretP)}, 1..MaxRows, {"Approved", "Denied"})
    \cup GetBooksRequests({BasicHeader(EmailA, SecretP)})
    \cup SubmitRequests({BasicHeader(EmailA, SecretP), BasicHeader(EmailB, SecretQ)},
                        {1}, {Day1, Day2})

NextFail ==
    \/ \E s \in DOMAIN inflight, req \in FailRequests : Arrive(s, req)
    \/ \E s \in DOMAIN inflight : Authenticate(s)
    \/ \E s \in DOMAIN inflight : CreateUser(s)
    \/ \E s \in DOMAIN inflight : ListRequests(s)
    \/ \E s \in DOMAIN inflight : UpdateRequestStatus(s)
    \/ \E s \in DOMAIN inflight : GetBooks(s)
    \/ \E s \in DOMAIN inflight : CheckConflict(s)
    \/ \E s \in DOMAIN inflight : InsertRequest(s)
    \/ \E s \in DOMAIN inflight : AuthLookupFails(s)
    \/ \E s \in DOMAIN inflight : CreateUserStoreFails(s)
    \/ \E s \in DOMAIN inflight : ListRequestsFails(s)
    \/ \E s \in DOMAIN inflight : UpdateStoreFails(s)
    \/ \E s \in DOMAIN inflight : GetBooksFails(s)
    \/ \E s \in DOMAIN inflight : CheckConflictFails(s)
    \/ \E s \in DOMAIN inflight : InsertRequestStoreFails(s)

SpecFail == Init /\ [][NextFail]_vars

(***************************************************************************)
(* The users table, from a store with and without an administrator.        *)
(***************************************************************************)
\* the only user of a store that has no administrator
Sole == [id |-> 1, email |-> EmailB, password |-> HashSync(SecretQ), is_admin |-> 0]

InitUsers ==
    /\ users \in {<<Admin, Ordinary>>, <<Sole>>}
    /\ books = Catalogue
    /\ borrow_requests = <<>>
    /\ inflight = [s \in {1} |-> Idle]

\* the librarian, the reader and the user the librarian may create
UsersHeaders ==
    {BasicHeader(EmailA, SecretP), BasicHeader(EmailB, SecretQ),
     BasicHeader(EmailZ, SecretQ)}

\* anyone creates a user z or a second user b, of any role or of none
\* given, asks for book 1 on day 1 and approves request 1
UsersRequests ==
    CreateUserRequests(UsersHeaders, {EmailZ, EmailB}, {SecretQ},
                       {"true", "false", "undefined"})
    \cup SubmitRequests(UsersHeaders, {1}, {Day1})
    \cup UpdateRequests(UsersHeaders, {1}, {"Approved"})

NextUsers ==
    \/ \E s \in DOMAIN inflight, req \in UsersRequests : Arrive(s, req)
    \/ \E s \in DOMAIN inflight : Authenticate(s)
    \/ \E s \in DOMAIN inflight : CreateUser(s)
    \/ \E s \in DOMAIN inflight : UpdateRequestStatus(s)
    \/ \E s \in DOMAIN inflight : CheckConflict(s)
    \/ \E s \in DOMAIN inflight : InsertRequest(s)

SpecUsers == InitUsers /\ [][NextUsers]_vars

(***************************************************************************)
(* Properties.                                                             *)
(***************************************************************************)
\* the calendar day a date names
DayNum(date) == 10 * (AsciiTable[date[1]] - 48) + (AsciiTable[date[2]] - 48)

\* the inclusive ranges of two rows share a day
SharesDay(r1, r2) ==
    \E d \in 1..31 :
        /\ DayNum(r1.start_date) <= d /\ d <= DayNum(r1.end_date)
        /\ DayNum(r2.start_date) <= d /\ d <= DayNum(r2.end_date)

\* a date lies in the inclusive range of a row
InRange(date, row) ==
    DayNum(row.start_date) <= DayNum(date) /\ DayNum(date) <= DayNum(row.end_date)

\* two Approved requests for one book whose ranges share a day
DoubleBooked(i, j) ==
    /\ i # j
    /\ borrow_requests[i].book_id = borrow_requests[j].book_id
    /\ borrow_requests[i].status = "Approved"
    /\ borrow_requests[j].status = "Approved"
    /\ SharesDay(borrow_requests[i], borrow_requests[j])

Slots == DOMAIN inflight

\* slot s holds a request to the endpoint that has passed the middleware and
\* this step is the handler's
Handles(s, endpoint) ==
    /\ inflight[s].pc = "route"
    /\ inflight[s].endpoint = endpoint
    /\ inflight'[s] # inflight[s]

\* C1: no double-booking. In every reachable state no book has two distinct
\* Approved requests whose inclusive date ranges share a day.
C1_NoDoubleBooking ==
    \A i, j \in 1..Len(borrow_requests) : ~DoubleBooked(i, j)

\* C2: a submission whose start date or end date lies in the range of an
\* Approved request for the same book is answered 400 (conflict) and the
\* borrow_requests table stays exactly as it was.
C2_ConflictRejected ==
    [][\A s \in Slots :
        ( /\ Handles(s, "POST /borrow-requests")
          /\ \E i \in 1..Len(borrow_requests) :
                /\ borrow_requests[i].book_id = inflight[s].body.book_id
                /\ borrow_requests[i].status = "Approved"
                /\ \/ InRange(inflight[s].body.start_date, borrow_requests[i])
                   \/ InRange(inflight[s].body.end_date, borrow_requests[i]) )
        => /\ inflight'[s].pc = "done"
           /\ inflight'[s].resp =
                 Resp(400, "Book already borrowed during the selected period")
           /\ borrow_requests' = borrow_requests]_vars

\* C2 witness: a submission has been answered with the conflict response
\* while only its end date lies in the range of an Approved request
C2_Witness ==
    \E s \in Slots, i \in 1..Len(borrow_requests) :
        /\ inflight[s].pc = "done"
        /\ inflight[s].endpoint = "POST /borrow-requests"
        /\ inflight[s].resp.status = 400
        /\ inflight[s].resp.msg = "Book already borrowed during the selected period"
        /\ borrow_requests[i].book_id = inflight[s].body.book_id
        /\ borrow_requests[i].status = "Approved"
        /\ InRange(inflight[s].body.end_date, borrow_requests[i])
        /\ ~InRange(inflight[s].body.start_date, borrow_requests[i])

\* C3: a successful submission adds exactly one row: Pending, with the
\* book and dates of the request and the id of the authenticated requester
\* as user_id; the rows before it are unchanged; and a listing that
\* succeeds returns every row of the table, the new one included.
C3_SubmitAddsPending ==
    [][\A s \in Slots :
        /\ ( /\ inflight[s].endpoint = "POST /borrow-requests"
             /\ inflight[s].pc # "done"
             /\ inflight'[s].pc = "done"
             /\ inflight'[s].resp.status = 200 )
           => /\ Len(borrow_requests') = Len(borrow_requests) + 1
              /\ SubSeq(borrow_requests', 1, Len(borrow_requests)) = borrow_requests
              /\ LET new == borrow_requests'[Len(borrow_requests')]
                 IN  /\ new.status = "Pending"
                     /\ new.book_id = inflight[s].body.book_id
                     /\ new.start_date = inflight[s].body.start_date
                     /\ new.end_date = inflight[s].body.end_date
                     /\ new.user_id = inflight[s].user.id
                     /\ \E u \in 1..Len(users) :
                           /\ users[u].id = new.user_id
                           /\ users[u] = inflight[s].user
        /\ ( /\ Handles(s, "GET /borrow-requests")
             /\ inflight'[s].resp.status = 200 )
           => \A i \in 1..Len(borrow_requests) :
                 \E k \in 1..Len(inflight'[s].resp.data) :
                    inflight'[s].resp.data[k] = borrow_requests[i]]_vars

\* C3 witness: a listing has returned a Pending request of book 2 for days
\* 1 to 2 that the reader (user 2) submitted
C3_Witness ==
    \E s \in Slots :
        /\ inflight[s].pc = "done"
        /\ inflight[s].endpoint = "GET /borrow-requests"
        /\ inflight[s].resp.status = 200
        /\ \E k \in 1..Len(inflight[s].resp.data) :
              /\ inflight[s].resp.data[k].status = "Pending"
              /\ inflight[s].resp.data[k].user_id = 2
              /\ inflight[s].resp.data[k].book_id = 2
              /\ inflight[s].resp.data[k].start_date = Day1
              /\ inflight[s].resp.data[k].end_date = Day2

\* C4: a successful update of request id to status st by an administrator
\* leaves that row with status st, every other row with its status, every
\* row with its id, book, user and dates, and the table with the same rows.
C4_UpdateFrame ==
    [][\A s \in Slots :
        ( /\ Handles(s, "PUT /borrow-requests/:id")
          /\ inflight[s].body.status \in Statuses
          /\ inflight'[s].resp.status = 200 )
        => /\ Len(borrow_requests') = Len(borrow_requests)
           /\ \A i \in 1..Len(borrow_requests) :
                /\ borrow_requests'[i].id = borrow_requests[i].id
                /\ borrow_requests'[i].book_id = borrow_requests[i].book_id
                /\ borrow_requests'[i].user_id = borrow_requests[i].user_id
                /\ borrow_requests'[i].start_date = borrow_requests[i].start_date
                /\ borrow_requests'[i].end_date = borrow_requests[i].end_date
                /\ borrow_requests'[i].status =
                      IF borrow_requests[i].id = inflight[s].params.id
                      THEN inflight[s].body.status
                      ELSE borrow_requests[i].status]_vars

\* C4 witness: an update has succeeded on one of two requests for the same
\* book, and the other request has a different status
C4_Witness ==
    \E s \in Slots, i, j \in 1..Len(borrow_requests) :
        /\ inflight[s].pc = "done"
        /\ inflight[s].endpoint = "PUT /borrow-requests/:id"
        /\ inflight[s].resp.status = 200
        /\ borrow_requests[i].id = inflight[s].params.id
        /\ borrow_requests[i].status = inflight[s].body.status
        /\ i # j
        /\ borrow_requests[j].book_id = borrow_requests[i].book_id
        /\ borrow_requests[j].status # borrow_requests[i].status

AdminOnly == {"POST /users", "GET /borrow-requests", "PUT /borrow-requests/:id"}

\* the stored role of the user a request was authenticated as is ordinary
OrdinaryRequester(s) ==
    \E u \in 1..Len(users) :
        /\ users[u].id = inflight[s].user.id
        /\ users[u].is_admin = 0

\* C5: an authenticated user who is not an administrator gets the 403
\* access-denied response from POST /users, GET /borrow-requests and
\* PUT /borrow-requests/:id, with no data in it, and neither table changes.
C5_NonAdminDenied ==
    [][\A s \in Slots :
        ( /\ inflight[s].pc = "route"
          /\ inflight[s].endpoint \in AdminOnly
          /\ inflight'[s] # inflight[s]
          /\ OrdinaryRequester(s) )
        => /\ inflight'[s].pc = "done"
           /\ inflight'[s].resp = Resp(403, "Access denied")
           /\ users' = users
           /\ borrow_requests' = borrow_requests]_vars

\* C5 witness: the reader has been refused the listing while the table
\* holds a request
C5_Witness ==
    \E s \in Slots :
        /\ inflight[s].pc = "done"
        /\ inflight[s].endpoint = "GET /borrow-requests"
        /\ inflight[s].user = Ordinary
        /\ inflight[s].resp.status = 403
        /\ Len(borrow_requests) > 0

KnownEmails == {EmailA, EmailB, EmailZ}

KnownSecrets == {SecretP, SecretQ, SecretPQ, SecretQP}

\* the middleware's step on the request of slot s
Authenticates(s) == inflight[s].pc = "auth" /\ inflight'[s] # inflight[s]

\* C6: a header that encodes a stored user's identity and exactly the
\* secret the user was created with (a ':' in it or not) passes the gate
\* with req.user the stored user; one that encodes another secret is
\* rejected and reaches no handler.
C6_AuthGate ==
    [][\A s \in Slots : Authenticates(s) =>
        \A u \in 1..Len(users), secret \in KnownSecrets :
            inflight[s].header = BasicHeader(users[u].email, secret) =>
                IF users[u].password = HashSync(secret)
                THEN inflight'[s].pc = "route" /\ inflight'[s].user = users[u]
                ELSE inflight'[s].pc = "done" /\ inflight'[s].resp.status = 401]_vars

\* the header names an identity and a secret that no stored user has
BadCredentials(header) ==
    \E e \in KnownEmails, secret \in KnownSecrets :
        /\ header = BasicHeader(e, secret)
        /\ ~\E u \in 1..Len(users) :
              users[u].email = e /\ users[u].password = HashSync(secret)

\* the header is missing, or has no credentials part or no ':' in them
Malformed(header) ==
    \/ header = <<>>
    \/ header = HeaderNoSpace
    \/ \E e \in KnownEmails : header = HeaderNoColon(e)

\* C7: a missing header, a malformed header or encoding, an unknown
\* identity and a mismatched secret all end in a 401 response, with no
\* handler run and no store change; unknown identity and wrong secret get
\* the same response.
C7_AuthFailures ==
    [][\A s \in Slots :
        /\ (Authenticates(s) /\ (Malformed(inflight[s].header) \/ BadCredentials(inflight[s].header)))
           => /\ inflight'[s].pc = "done"
              /\ inflight'[s].resp.status = 401
              /\ users' = users
              /\ borrow_requests' = borrow_requests
        /\ (Authenticates(s) /\ BadCredentials(inflight[s].header))
           => inflight'[s].resp = Resp(401, "Invalid credentials")]_vars

\* C8: a 403 is only produced for a request that passed authentication: a
\* request to an admin-only endpoint with missing or invalid credentials
\* is answered 401 and never 403, and an authenticated request is never
\* answered 401.
C8_DistinctSignals ==
    [][\A s \in Slots :
        /\ ( /\ Authenticates(s)
             /\ inflight[s].endpoint \in AdminOnly
             /\ (Malformed(inflight[s].header) \/ BadCredentials(inflight[s].header)) )
           => inflight'[s].resp.status = 401
        /\ inflight'[s].resp.status = 403
           => /\ inflight'[s].user # NoUser
              /\ ~Malformed(inflight'[s].header)
              /\ ~BadCredentials(inflight'[s].header)
        /\ inflight'[s].user # NoUser => inflight'[s].resp.status # 401]_vars

\* the submissions of two slots are for one book and ranges that share a day
Overlapping(s, t) ==
    /\ inflight[s].body.book_id = inflight[t].body.book_id
    /\ SharesDay(inflight[s].body, inflight[t].body)

\* C9: nothing serialises the conflict check and the insert. A submission
\* that finds no Approved conflict passes its check while another one for
\* an overlapping range sits between its own check and its insert, and
\* every submission that passed its check inserts its row and succeeds,
\* whatever was inserted in between.
C9_CheckInsertRace ==
    [][\A s \in Slots :
        /\ ( /\ Handles(s, "POST /borrow-requests")
             /\ \A i \in 1..Len(borrow_requests) :
                   borrow_requests[i].status # "Approved"
             /\ \E t \in Slots \ {s} : inflight[t].pc = "insert" /\ Overlapping(s, t) )
           => inflight'[s].pc = "insert"
        /\ (inflight[s].pc = "insert" /\ inflight'[s] # inflight[s])
           => /\ inflight'[s].resp = Resp(200, "Request submitted")
              /\ Len(borrow_requests') = Len(borrow_requests) + 1
              /\ borrow_requests'[Len(borrow_requests')].start_date =
                    inflight[s].body.start_date]_vars

\* C9 witness: two submissions for overlapping ranges of one book have
\* both passed the conflict check and neither has inserted yet
C9_Witness ==
    \E s, t \in Slots :
        /\ s # t
        /\ inflight[s].pc = "insert"
        /\ inflight[t].pc = "insert"
        /\ inflight[s].body.start_date # inflight[t].body.start_date
        /\ Overlapping(s, t)
        /\ borrow_requests = <<>>

\* C10: an administrator's update to Pending, Approved or Denied of an
\* existing request succeeds whatever the request's current status and
\* whatever the other rows are, and sets the status.
C10_UpdateUnconditional ==
    [][\A s \in Slots :
        ( /\ Handles(s, "PUT /borrow-requests/:id")
          /\ inflight[s].user.is_admin = 1
          /\ inflight[s].body.status \in Statuses )
        => /\ inflight'[s].resp = Resp(200, "Request updated")
           /\ \A i \in 1..Len(borrow_requests) :
                 borrow_requests[i].id = inflight[s].params.id
                 => borrow_requests'[i].status = inflight[s].body.status]_vars

\* C10 witness: the approval of a request has succeeded although another
\* Approved request for the same book shares a day with it
C10_Witness ==
    \E s \in Slots, i, j \in 1..Len(borrow_requests) :
        /\ inflight[s].pc = "done"
        /\ inflight[s].endpoint = "PUT /borrow-requests/:id"
        /\ inflight[s].body.status = "Approved"
        /\ inflight[s].resp = Resp(200, "Request updated")
        /\ inflight[s].params.id = borrow_requests[i].id
        /\ DoubleBooked(i, j)

\* the range of a submission strictly encloses the range of a row
Encloses(body, row) ==
    /\ DayNum(body.start_date) < DayNum(row.start_date)
    /\ DayNum(row.end_date) < DayNum(body.end_date)

\* an Approved row of the book of the submission holds its start or end date
EndpointInside(body, row) ==
    /\ row.book_id = body.book_id
    /\ row.status = "Approved"
    /\ (InRange(body.start_date, row) \/ InRange(body.end_date, row))

\* C11: the known overlap gap. A submission whose range strictly encloses
\* an Approved range of the same book, and whose start and end lie in no
\* Approved range of that book, passes the conflict check and is recorded
\* as Pending with a success answer, although the two ranges share days.
C11_EnclosingAccepted ==
    [][\A s \in Slots :
        ( /\ inflight[s].endpoint = "POST /borrow-requests"
          /\ inflight[s].pc \in {"route", "insert"}
          /\ inflight'[s] # inflight[s]
          /\ \E i \in 1..Len(borrow_requests) :
                /\ borrow_requests[i].book_id = inflight[s].body.book_id
                /\ borrow_requests[i].status = "Approved"
                /\ Encloses(inflight[s].body, borrow_requests[i])
                /\ SharesDay(inflight[s].body, borrow_requests[i])
          /\ \A i \in 1..Len(borrow_requests) :
                ~EndpointInside(inflight[s].body, borrow_requests[i]) )
        => IF inflight[s].pc = "route"
           THEN inflight'[s].pc = "insert" /\ borrow_requests' = borrow_requests
           ELSE /\ inflight'[s].resp = Resp(200, "Request submitted")
                /\ Len(borrow_requests') = Len(borrow_requests) + 1
                /\ LET new == borrow_requests'[Len(borrow_requests')]
                   IN  /\ new.status = "Pending"
                       /\ new.book_id = inflight[s].body.book_id
                       /\ new.start_date = inflight[s].body.start_date
                       /\ new.end_date = inflight[s].body.end_date]_vars

\* C11 witness: a request for days 1 to 3 of book 1 has been accepted and
\* is Pending while the request for day 2 of book 1 is Approved
C11_Witness ==
    \E s \in Slots, i, j \in 1..Len(borrow_requests) :
        /\ inflight[s].pc = "done"
        /\ inflight[s].endpoint = "POST /borrow-requests"
        /\ inflight[s].resp = Resp(200, "Request submitted")
        /\ borrow_requests[i].status = "Approved"
        /\ j = Len(borrow_requests)
        /\ borrow_requests[j].status = "Pending"
        /\ borrow_requests[j].book_id = borrow_requests[i].book_id
        /\ borrow_requests[j].start_date = inflight[s].body.start_date
        /\ borrow_requests[j].end_date = inflight[s].body.end_date
        /\ Encloses(borrow_requests[j], borrow_requests[i])
        /\ SharesDay(borrow_requests[j], borrow_requests[i])

\* C12: in submitRequest and updateRequestStatus a storage failure at any
\* store access (the conflict query, the insert, the update) is answered
\* with the generic 400 and leaves borrow_requests unchanged.
C12_WriteFailure ==
    [][\A s \in Slots :
        (CheckConflictFails(s) \/ InsertRequestStoreFails(s) \/ UpdateStoreFails(s))
        => /\ inflight'[s].pc = "done"
           /\ inflight'[s].resp.status = 400
           /\ borrow_requests' = borrow_requests]_vars

\* C15: every request gets exactly one response. A request whose handling
\* has ended has been answered, also when a store access of the middleware,
\* of the listings or of the conflict query failed, and an answer once sent
\* is not replaced.
C15_ExactlyOneResponse ==
    [][\A s \in Slots :
        /\ inflight'[s].pc \in {"done", "failed"} => inflight'[s].resp # NoResponse
        /\ (inflight[s].resp # NoResponse /\ inflight'[s].pc # "auth")
           => inflight'[s].resp = inflight[s].resp]_vars

\* C13: every row of borrow_requests has status Pending, Approved or Denied
\* in every reachable state: an update of an existing request to any other
\* status is answered 400 and the table, the row's status included, stays
\* as it was.
C13_StatusChecked ==
    /\ [](\A i \in 1..Len(borrow_requests) : borrow_requests[i].status \in Statuses)
    /\ [][\A s \in Slots :
            ( /\ Handles(s, "PUT /borrow-requests/:id")
              /\ inflight[s].user.is_admin = 1
              /\ inflight[s].body.status \notin Statuses
              /\ \E i \in 1..Len(borrow_requests) :
                    borrow_requests[i].id = inflight[s].params.id )
            => /\ inflight'[s].pc = "done"
               /\ inflight'[s].resp.status = 400
               /\ borrow_requests' = borrow_requests]_vars

\* C13 witness: the update of request 1 to "Returned" has been answered 400
\* and request 1 is still Approved
C13_Witness ==
    \E s \in Slots, i \in 1..Len(borrow_requests) :
        /\ inflight[s].pc = "done"
        /\ inflight[s].endpoint = "PUT /borrow-requests/:id"
        /\ inflight[s].body.status = "Returned"
        /\ inflight[s].resp = Resp(400, "Error updating request")
        /\ borrow_requests[i].id = inflight[s].params.id
        /\ borrow_requests[i].status = "Approved"

\* C19: an administrator's update for an id that no row has is answered
\* "Request updated" and leaves borrow_requests unchanged.
C19_UnknownIdSucceeds ==
    [][\A s \in Slots :
        ( /\ Handles(s, "PUT /borrow-requests/:id")
          /\ inflight[s].user.is_admin = 1
          /\ \A i \in 1..Len(borrow_requests) :
                borrow_requests[i].id # inflight[s].params.id )
        => /\ inflight'[s].pc = "done"
           /\ inflight'[s].resp = Resp(200, "Request updated")
           /\ borrow_requests' = borrow_requests]_vars

\* C19 witness: the update of a request that does not exist has been
\* answered "Request updated" while the table holds other requests
C19_Witness ==
    \E s \in Slots :
        /\ inflight[s].pc = "done"
        /\ inflight[s].endpoint = "PUT /borrow-requests/:id"
        /\ inflight[s].resp = Resp(200, "Request updated")
        /\ inflight[s].body.status = "Approved"
        /\ Len(borrow_requests) > 0
        /\ \A i \in 1..Len(borrow_requests) :
              /\ borrow_requests[i].id # inflight[s].params.id
              /\ borrow_requests[i].status = "Pending"

\* the step is one of the request in slot s
StepOf(s) == inflight'[s] # inflight[s] /\ inflight[s].pc # "idle" /\ inflight'[s].pc # "auth"

\* C14: a request is created only by a submission and only as Pending, and
\* is afterwards changed only in its status and only by a successful update
\* of an administrator: no step removes a row, reuses an id or changes a
\* row's book, user or dates, and no step of a non-administrator's request
\* changes an existing row.
C14_RequestLifecycle ==
    [][/\ Len(borrow_requests') >= Len(borrow_requests)
       /\ \A i \in 1..Len(borrow_requests) :
             /\ borrow_requests'[i].id = borrow_requests[i].id
             /\ borrow_requests'[i].book_id = borrow_requests[i].book_id
             /\ borrow_requests'[i].user_id = borrow_requests[i].user_id
             /\ borrow_requests'[i].start_date = borrow_requests[i].start_date
             /\ borrow_requests'[i].end_date = borrow_requests[i].end_date
       /\ \A i, j \in 1..Len(borrow_requests') :
             i # j => borrow_requests'[i].id # borrow_requests'[j].id
       /\ Len(borrow_requests') > Len(borrow_requests)
          => /\ Len(borrow_requests') = Len(borrow_requests) + 1
             /\ borrow_requests'[Len(borrow_requests')].status = "Pending"
             /\ \E s \in Slots :
                   /\ StepOf(s)
                   /\ inflight[s].endpoint = "POST /borrow-requests"
                   /\ inflight'[s].resp.status = 200
       /\ (\E i \in 1..Len(borrow_requests) :
              borrow_requests'[i].status # borrow_requests[i].status)
          => \E s \in Slots :
                /\ StepOf(s)
                /\ inflight[s].endpoint = "PUT /borrow-requests/:id"
                /\ inflight'[s].resp.status = 200
                /\ \E u \in 1..Len(users) :
                      users[u] = inflight[s].user /\ users[u].is_admin = 1
       /\ \A s \in Slots :
             (StepOf(s) /\ ~\E u \in 1..Len(users) :
                              users[u] = inflight[s].user /\ users[u].is_admin = 1)
             => SubSeq(borrow_requests', 1, Len(borrow_requests)) = borrow_requests
      ]_vars

\* C14 witness: the reader's update has been refused while the table holds
\* a request the librarian approved and a later one that is still Pending
C14_Witness ==
    \E s \in Slots :
        /\ inflight[s].pc = "done"
        /\ inflight[s].endpoint = "PUT /borrow-requests/:id"
        /\ inflight[s].user = Ordinary
        /\ inflight[s].resp.status = 403
        /\ Len(borrow_requests) = 2
        /\ borrow_requests[1].status = "Approved"
        /\ borrow_requests[2].status = "Pending"
        /\ borrow_requests[1].id # borrow_requests[2].id

\* C16: with no storage failure a submission is rejected if and only if an
\* Approved row of the same book holds the new start date or the new end
\* date in its range; Pending and Denied rows and rows of another book
\* never cause a rejection, whatever their ranges.
C16_RejectedIffEndpointInside ==
    [][\A s \in Slots :
        /\ Handles(s, "POST /borrow-requests")
           => /\ (inflight'[s].pc = "done" /\ inflight'[s].resp.status = 400)
                 <=> \E i \in 1..Len(borrow_requests) :
                        EndpointInside(inflight[s].body, borrow_requests[i])
              /\ inflight'[s].pc \in {"done", "insert"}
              /\ inflight'[s].pc = "insert" => inflight'[s].resp = NoResponse
        /\ (inflight[s].pc = "insert" /\ inflight'[s] # inflight[s])
           => /\ inflight'[s].pc = "done"
              /\ inflight'[s].resp = Resp(200, "Request submitted")]_vars

\* C16 witness: a request for day 2 of book 1 has been accepted while the
\* request for day 2 of book 2 is Approved
C16_Witness ==
    \E s \in Slots, i \in 1..Len(borrow_requests) :
        /\ inflight[s].pc = "done"
        /\ inflight[s].endpoint = "POST /borrow-requests"
        /\ inflight[s].resp = Resp(200, "Request submitted")
        /\ borrow_requests[i].status = "Approved"
        /\ borrow_requests[i].book_id # inflight[s].body.book_id
        /\ InRange(inflight[s].body.start_date, borrow_requests[i])
        /\ InRange(inflight[s].body.end_date, borrow_requests[i])
        /\ borrow_requests[Len(borrow_requests)].book_id = inflight[s].body.book_id
        /\ borrow_requests[Len(borrow_requests)].status = "Pending"

\* C17: whenever a submission inserts its Pending row, no row of the same
\* book that is Approved at that moment holds the new start or end date in
\* its range: an approval between the conflict query and the insert cannot
\* let through a request that a check at insert time would have rejected.
C17_NoConflictAtInsert ==
    [][\A s \in Slots :
        ( /\ inflight[s].pc = "insert"
          /\ inflight'[s].pc = "done"
          /\ Len(borrow_requests') = Len(borrow_requests) + 1 )
        => \A i \in 1..Len(borrow_requests) :
              ~EndpointInside(inflight[s].body, borrow_requests[i])]_vars

\* the users table holds an administrator
HasAdmin(table) == \E u \in 1..Len(table) : table[u].is_admin = 1

\* C18: the users table changes only by a successful POST /users of an
\* authenticated administrator, which appends one user with the email and
\* the role given (ordinary when is_admin is omitted); emails stay unique,
\* a duplicate email is answered 400 with the table unchanged, no user is
\* removed or altered; and from a store without administrator no user is
\* ever added and no request status ever changes.
C18_UsersTable ==
    [][/\ users' # users
          => \E s \in Slots :
                /\ Handles(s, "POST /users")
                /\ \E u \in 1..Len(users) :
                      users[u] = inflight[s].user /\ users[u].is_admin = 1
                /\ inflight'[s].resp = Resp(200, "User created successfully")
                /\ Len(users') = Len(users) + 1
                /\ SubSeq(users', 1, Len(users)) = users
                /\ users'[Len(users')].email = inflight[s].body.email
                /\ users'[Len(users')].is_admin =
                      (IF inflight[s].body.is_admin = "true" THEN 1 ELSE 0)
       /\ \A u, v \in 1..Len(users') :
             u # v => /\ users'[u].email # users'[v].email
                      /\ users'[u].id # users'[v].id
       /\ \A s \in Slots :
             ( /\ Handles(s, "POST /users")
               /\ \E u \in 1..Len(users) : users[u].email = inflight[s].body.email )
             => /\ inflight'[s].resp.status \in {400, 403}
                /\ users' = users
       /\ ~HasAdmin(users)
          => /\ users' = users
             /\ Len(borrow_requests') >= Len(borrow_requests)
             /\ \A i \in 1..Len(borrow_requests) :
                   borrow_requests'[i].status = borrow_requests[i].status
      ]_vars

\* C18 witness: the librarian has created user z without giving is_admin,
\* and z is stored as an ordinary user
C18_Witness ==
    \E s \in Slots :
        /\ inflight[s].pc = "done"
        /\ inflight[s].endpoint = "POST /users"
        /\ inflight[s].user = Admin
        /\ inflight[s].body.is_admin = "undefined"
        /\ inflight[s].resp = Resp(200, "User created successfully")
        /\ Len(users) = 3
        /\ users[3].email = inflight[s].body.email
        /\ users[3].is_admin = 0

====
